---- MODULE Spec2Model ----
(***************************************************************************)
(* A state-machine model of the two example circuits of                    *)
(* halo2-simple-examples (src/fibonacci.rs, src/rangecheck.rs) run under   *)
(* the mock prover: MockProver::run(k, &circuit, vec![]) synthesizes the   *)
(* circuit region by region into a table of advice cells, selector bits    *)
(* and copy constraints, and verify() evaluates every gate and every       *)
(* equality class over the finished table.                                 *)
(*                                                                         *)
(* The circuits are generic over F: FieldExt.  The model instantiates F    *)
(* with the prime field of P elements, P a small prime, in place of the    *)
(* 255-bit Pasta field Fp the tests use: every operation is the field      *)
(* operation mod P.                                                        *)
(*                                                                         *)
(* The layouter and the checker are library code (halo2_proofs); they are  *)
(* modelled from sections 4.2 and 4.4 of the specification.                *)
(***************************************************************************)
EXTENDS Integers, Sequences, FiniteSets, TLC

-----------------------------------------------------------------------------
(* The field F *)

P == 61

Field == 0 .. (P - 1)

FAdd(x, y) == (x + y) % P

FSub(x, y) == (x + P - y) % P

FMul(x, y) == (x * y) % P

\* F::from(i as u64)
FromU64(n) == n % P

-----------------------------------------------------------------------------
(* Option<F> and Value<F>: <<>> is None / unknown / unassigned, <<v>> is    *)
(* Some(v) / known(v) / an assigned cell.                                   *)

None == << >>

Some(v) == << v >>

IsSome(o) == Len(o) = 1

Unwrap(o) == o[1]

OptionField == {None} \cup {Some(v) : v \in Field}

-----------------------------------------------------------------------------
(* Bounds and program constants *)

\* k of the tests: fibonacci_simple(4), let k = 4
TestK == 4

\* largest k the model runs the prover with
MaxK == 5

\* largest RANGE parameter the model instantiates RangeCheckConfig with
MaxRange == 9

\* for _ in 3..10
LoopStart == 3

\* the loop over the inclusive range 3..=10
LoopEndInclusive == 10 + 1

LoopEnd == 10

RECURSIVE Pow2(_)
Pow2(n) == IF n = 0 THEN 1 ELSE 2 * Pow2(n - 1)

\* the table of a prover run with k has 2^k rows
Height(kk) == Pow2(kk)

-----------------------------------------------------------------------------
VARIABLES
    circuit,     \* which circuit the prover runs: "fibonacci" or "rangecheck"
    k,           \* MockProver::run's k: the table has 2^k rows
    a, b,        \* MyCircuit.a, MyCircuit.b : Option<F>
    c_rule,      \* how assign_first_row computes c: "a + b", or the variant
                 \* "a + b + b" its comment describes
    RANGE,       \* the const parameter of RangeCheckConfig<F, RANGE>
    value,       \* TestCircuit.value (known)
    advice,      \* the table: advice[column][row] is None or Some(v)
    selectors,   \* rows at which the circuit's selector is enabled
    copies,      \* the committed copy constraints, pairs of cells
    regions,     \* the committed regions, in commit order
    next_row,    \* the layouter's next free absolute row
    prev_b, prev_c,  \* synthesize's locals: assigned cells
    iter,        \* the loop variable of for _ in 3..10
    pc,          \* position of the run
    result,      \* what synthesize returned: "Pending", "Ok", "Synthesis"
    failures     \* what verify returned: the list of violations

vars == << circuit, k, a, b, c_rule, RANGE, value, advice, selectors, copies,
           regions, next_row, prev_b, prev_c, iter, pc, result, failures >>

inputs == << circuit, k, a, b, c_rule, RANGE, value >>

-----------------------------------------------------------------------------
(* Configuration *)

\* FiboChip::configure allocates col_a, col_b, col_c; TestCircuit::configure
\* allocates one advice column.
NumAdvice(circ) == IF circ = "fibonacci" THEN 3 ELSE 1

\* meta.enable_equality(col_a / col_b / col_c); the range-check circuit
\* enables equality on no column.
EqualityEnabled(circ) == IF circ = "fibonacci" THEN {0, 1, 2} ELSE {}

Cell(col, row) == [column |-> col, row |-> row]

\* AssignedCell<F, F>: a cell and its value
ACell(col, row, val) == [cell |-> Cell(col, row), value |-> val]

NoCell == [cell |-> Cell(0, 0), value |-> None]

-----------------------------------------------------------------------------
(* Region bodies: what the closure passed to assign_region records, in      *)
(* region-local offsets.  err is "Ok" or the Error the closure returned;    *)
(* on an error the region is not committed.                                 *)

\* the closure returned Err(e) after enabling the selector at the offsets en
\* and before any assign_advice
Failed(e, en) ==
    [err |-> e, enabled |-> en, cells |-> {}, links |-> {}]

\* first_row_c with the variant a + b + b taken whatever the rule
first_row_c_doubled(rule, av, bv) == FAdd(FAdd(av, bv), bv)

\* the c of assign_first_row: a + b, or a + b + b under the variant
first_row_c(rule, av, bv) ==
    IF rule = "a + b" THEN FAdd(av, bv) ELSE FAdd(FAdd(av, bv), bv)

\* assign_first_row with an absent input replaced by the default value 0
\* (unwrap_or_default in place of ok_or(Error::Synthesis)?)
assign_first_row_default(rule, oa, ob) ==
    LET av == IF IsSome(oa) THEN Unwrap(oa) ELSE 0
        bv == IF IsSome(ob) THEN Unwrap(ob) ELSE 0
    IN  [err     |-> "Ok",
         enabled |-> {0},
         cells   |-> { [column |-> 0, offset |-> 0, value |-> Some(av)],
                       [column |-> 1, offset |-> 0, value |-> Some(bv)],
                       [column |-> 2, offset |-> 0,
                        value  |-> Some(first_row_c(rule, av, bv))] },
         links   |-> {}]

assign_first_row(rule, oa, ob) ==
    IF ~IsSome(oa) \/ ~IsSome(ob)
    THEN Failed("Synthesis", {0})
    ELSE [err     |-> "Ok",
          enabled |-> {0},
          cells   |-> { [column |-> 0, offset |-> 0, value |-> oa],
                        [column |-> 1, offset |-> 0, value |-> ob],
                        [column |-> 2, offset |-> 0,
                         value  |-> Some(first_row_c(rule, Unwrap(oa), Unwrap(ob)))] },
          links   |-> {}]

\* copy_advice(source, column, offset): assign the source's value and
\* constrain the new cell equal to the source's cell
copy_advice(src, col, off) ==
    [cell |-> [column |-> col, offset |-> off, value |-> src.value],
     link |-> [from |-> src.cell, column |-> col, offset |-> off]]

\* row_c computed as b + c + c
row_c_doubled(pb, pc_) ==
    IF IsSome(pb.value) /\ IsSome(pc_.value)
    THEN Some(FAdd(FAdd(Unwrap(pb.value), Unwrap(pc_.value)), Unwrap(pc_.value)))
    ELSE None

\* the c of assign_row: prev_b.value().and_then(|b| prev_c.value().map(|c| b + c))
row_c(pb, pc_) ==
    IF IsSome(pb.value) /\ IsSome(pc_.value)
    THEN Some(FAdd(Unwrap(pb.value), Unwrap(pc_.value)))
    ELSE None

\* assign_row copying prev_c, not prev_b, into column a
assign_row_copies_c(pb, pc_) ==
    LET ca == copy_advice(pc_, 0, 0)
        cb == copy_advice(pc_, 1, 0)
    IN  [err     |-> "Ok",
         enabled |-> {0},
         cells   |-> { ca.cell, cb.cell,
                       [column |-> 2, offset |-> 0,
                        value  |-> Some(FAdd(Unwrap(pc_.value), Unwrap(pc_.value)))] },
         links   |-> { ca.link, cb.link }]

\* assign_row assigning c at offset 1, one row below a and b
assign_row_c_below(pb, pc_) ==
    LET ca == copy_advice(pb, 0, 0)
        cb == copy_advice(pc_, 1, 0)
    IN  [err     |-> "Ok",
         enabled |-> {0},
         cells   |-> { ca.cell, cb.cell,
                       [column |-> 2, offset |-> 1,
                        value  |-> Some(FAdd(Unwrap(pb.value), Unwrap(pc_.value)))] },
         links   |-> { ca.link, cb.link }]

assign_row(pb, pc_) ==
    LET ca == copy_advice(pb, 0, 0)
        cb == copy_advice(pc_, 1, 0)
    IN  [err     |-> "Ok",
         enabled |-> {0},
         cells   |-> { ca.cell, cb.cell,
                       [column |-> 2, offset |-> 0, value |-> row_c(pb, pc_)] },
         links   |-> { ca.link, cb.link }]

\* assign writing the value at offset 1, one row below the selector
assign_below(v) ==
    [err     |-> "Ok",
     enabled |-> {0},
     cells   |-> { [column |-> 0, offset |-> 1, value |-> Some(v)] },
     links   |-> {}]

\* RangeCheckConfig::assign
assign(v) ==
    [err     |-> "Ok",
     enabled |-> {0},
     cells   |-> { [column |-> 0, offset |-> 0, value |-> Some(v)] },
     links   |-> {}]

-----------------------------------------------------------------------------
(* The layouter: commit a region at the next free rows *)

Max(S) == CHOOSE m \in S : \A n \in S : n <= m

\* number of rows the region spans
RegionRows(body) ==
    LET offs == body.enabled \cup { c.offset : c \in body.cells }
    IN  IF offs = {} THEN 0 ELSE 1 + Max(offs)

\* a copy needs equality enabled on both columns
LinksAllowed(circ, body) ==
    \A l \in body.links :
        l.column \in EqualityEnabled(circ) /\ l.from.column \in EqualityEnabled(circ)

\* the error assign_region returns, "Ok" if the region is committed
RegionError(circ, body) ==
    IF body.err # "Ok" THEN body.err
    ELSE IF ~LinksAllowed(circ, body) THEN "Synthesis"
    ELSE "Ok"

CommitAdvice(adv, start, body) ==
    [col \in DOMAIN adv |->
        [row \in DOMAIN adv[col] |->
            IF \E c \in body.cells : c.column = col /\ start + c.offset = row
            THEN (CHOOSE c \in body.cells : c.column = col /\ start + c.offset = row).value
            ELSE adv[col][row]]]

CommitSelectors(sel, start, body) ==
    sel \cup { start + o : o \in body.enabled }

CommitCopies(cps, start, body) ==
    cps \cup { << l.from, Cell(l.column, start + l.offset) >> : l \in body.links }

CommitRegion(regs, name, start, body) ==
    Append(regs, [name |-> name, start |-> start, rows |-> RegionRows(body)])

\* the handle of the cell the body assigned in column col
Handle(body, start, col) ==
    LET c == CHOOSE x \in body.cells : x.column = col
    IN  ACell(col, start + c.offset, c.value)


-----------------------------------------------------------------------------
(* Gates *)

\* create_gate("add", ...): vec![s * (a + b - c)]
add(s, av, bv, cv) == FMul(s, FSub(FAdd(av, bv), cv))

\* the range the gate is built with: range_check(8, value)
GateRange == 8

\* (0..range).fold(value.clone(), |expr, i| expr * (Constant(F::from(i)) - value.clone()))
RECURSIVE fold(_, _, _, _)
fold(expr, i, range, v) ==
    IF i >= range THEN expr
    ELSE fold(FMul(expr, FSub(FromU64(i), v)), i + 1, range, v)

\* range_check over the inclusive range 0..=range
range_check_inclusive(range, v) == fold(v, 0, range + 1, v)

range_check(range, v) == fold(v, 0, range, v)

\* The gate RangeCheckConfig::<F, R>::configure stores:
\* Constraints::with_selector(q_range_check, [("range check", range_check(8, value))])
range_check_gate(R, q, v) == FMul(q, range_check(GateRange, v))

\* the gate of each circuit: its index and name, the index and name of its
\* one constraint, and the advice columns it queries at Rotation::cur()
Gate(circ) ==
    IF circ = "fibonacci"
    THEN [index |-> 0, name |-> "add", cindex |-> 0, cname |-> "",
          queries |-> << 0, 1, 2 >>]
    ELSE [index |-> 0, name |-> "Range check", cindex |-> 0, cname |-> "range check",
          queries |-> << 0 >>]

\* the value of the circuit's gate at a row whose queried cells are assigned
EvalGate(circ, R, adv, sel, row) ==
    LET s == IF row \in sel THEN 1 ELSE 0
    IN  IF circ = "fibonacci"
        THEN add(s, Unwrap(adv[0][row]), Unwrap(adv[1][row]), Unwrap(adv[2][row]))
        ELSE range_check_gate(R, s, Unwrap(adv[0][row]))

-----------------------------------------------------------------------------
(* The checker *)

HexDigits == << "0", "1", "2", "3", "4", "5", "6", "7",
                "8", "9", "a", "b", "c", "d", "e", "f" >>

RECURSIVE Hex(_)
Hex(n) == IF n < 16 THEN HexDigits[n + 1]
          ELSE Hex(n \div 16) \o HexDigits[(n % 16) + 1]

\* a field element as the checker records it: 8 is "0x8"
format_value(v) == "0x" \o Hex(v)

\* where a row lies: the region that holds it and the offset in that region
Location(regs, row) ==
    IF \E i \in 1 .. Len(regs) : regs[i].start <= row /\ row < regs[i].start + regs[i].rows
    THEN LET i == CHOOSE j \in 1 .. Len(regs) :
                      regs[j].start <= row /\ row < regs[j].start + regs[j].rows
         IN  [region |-> [index |-> i - 1, name |-> regs[i].name],
              offset |-> row - regs[i].start]
    ELSE [region |-> [index |-> 0 - 1, name |-> "outside"], offset |-> row]

CellValues(g, adv, row) ==
    [n \in 1 .. Len(g.queries) |->
        [column   |-> [type |-> "Advice", index |-> g.queries[n]],
         rotation |-> 0,
         value    |-> format_value(Unwrap(adv[g.queries[n]][row]))]]

\* the violations of the gate at one row
GateFailures(circ, R, adv, sel, regs, row) ==
    LET g == Gate(circ)
    IN  IF row \notin sel THEN << >>
        ELSE IF \E n \in 1 .. Len(g.queries) : ~IsSome(adv[g.queries[n]][row])
        THEN << [kind     |-> "CellNotAssigned",
                 gate     |-> [index |-> g.index, name |-> g.name],
                 location |-> Location(regs, row)] >>
        ELSE IF EvalGate(circ, R, adv, sel, row) # 0
        THEN << [kind        |-> "ConstraintNotSatisfied",
                 gate        |-> [index |-> g.index, name |-> g.name],
                 constraint  |-> [index |-> g.cindex, name |-> g.cname],
                 location    |-> Location(regs, row),
                 cell_values |-> CellValues(g, adv, row)] >>
        ELSE << >>

\* for every row in [0, height): the gate's violations, in row order
RECURSIVE AllGateFailures(_, _, _, _, _, _, _)
AllGateFailures(circ, R, adv, sel, regs, row, height) ==
    IF row >= height THEN << >>
    ELSE GateFailures(circ, R, adv, sel, regs, row)
         \o AllGateFailures(circ, R, adv, sel, regs, row + 1, height)

\* the equivalence class of a set of cells under the copy constraints
RECURSIVE ClassOf(_, _)
ClassOf(S, cps) ==
    LET T == S \cup { p[2] : p \in { q \in cps : q[1] \in S } }
                \cup { p[1] : p \in { q \in cps : q[2] \in S } }
    IN  IF T = S THEN S ELSE ClassOf(T, cps)

Classes(cps) ==
    { ClassOf({ p[1] }, cps) : p \in cps }

ValueAt(adv, cell) == adv[cell.column][cell.row]

\* a class whose cells do not all hold one assigned value
ClassViolated(adv, class) ==
    \E x, y \in class :
        \/ ~IsSome(ValueAt(adv, x))
        \/ ValueAt(adv, x) # ValueAt(adv, y)

RECURSIVE EqualityFailures(_, _)
EqualityFailures(adv, classes) ==
    IF classes = {} THEN << >>
    ELSE LET cl == CHOOSE x \in classes : TRUE
             rest == EqualityFailures(adv, classes \ {cl})
         IN  IF ClassViolated(adv, cl)
             THEN << [kind  |-> IF \E x \in cl : ~IsSome(ValueAt(adv, x))
                                THEN "MissingEquality" ELSE "Permutation",
                      cells |-> cl] >> \o rest
             ELSE rest

\* check(constraint_system, table): the list of all violations
verify(circ, R, kk, adv, sel, cps, regs) ==
    AllGateFailures(circ, R, adv, sel, regs, 0, Height(kk))
    \o EqualityFailures(adv, Classes(cps))

-----------------------------------------------------------------------------
Init ==
    /\ circuit \in {"fibonacci", "rangecheck"}
    /\ k \in TestK .. MaxK
    /\ IF circuit = "fibonacci"
       THEN /\ a \in OptionField
            /\ b \in OptionField
            /\ c_rule \in {"a + b", "a + b + b"}
            /\ RANGE = 8
            /\ value = 0
       ELSE /\ a = None
            /\ b = None
            /\ c_rule = "a + b"
            /\ RANGE \in 1 .. MaxRange
            /\ value \in Field
    /\ advice = [col \in 0 .. (NumAdvice(circuit) - 1) |->
                    [row \in 0 .. (Height(k) - 1) |-> None]]
    /\ selectors = {}
    /\ copies = {}
    /\ regions = << >>
    /\ next_row = 0
    /\ prev_b = NoCell
    /\ prev_c = NoCell
    /\ iter = LoopStart
    /\ pc = "synthesize"
    /\ result = "Pending"
    /\ failures = << >>

\* layouter.assign_region(name, body): commit, or fail and leave the table alone
AssignRegion(name, body) ==
    IF RegionError(circuit, body) = "Ok"
    THEN /\ advice' = CommitAdvice(advice, next_row, body)
         /\ selectors' = CommitSelectors(selectors, next_row, body)
         /\ copies' = CommitCopies(copies, next_row, body)
         /\ regions' = CommitRegion(regions, name, next_row, body)
         /\ next_row' = next_row + RegionRows(body)
    ELSE UNCHANGED << advice, selectors, copies, regions, next_row >>

\* synthesize: let (_, mut prev_b, mut prev_c) = chip.assign_first_row(...)?
SynthesizeFirstRow ==
    /\ circuit = "fibonacci"
    /\ pc = "synthesize"
    /\ LET body == assign_first_row(c_rule, a, b)
           e == RegionError(circuit, body)
       IN  /\ AssignRegion("first row", body)
           /\ IF e = "Ok"
              THEN /\ prev_b' = Handle(body, next_row, 1)
                   /\ prev_c' = Handle(body, next_row, 2)
                   /\ pc' = "loop"
                   /\ UNCHANGED result
              ELSE /\ pc' = "failed"
                   /\ result' = e
                   /\ UNCHANGED << prev_b, prev_c >>
    /\ UNCHANGED << inputs, iter, failures >>

\* one iteration of the loop: let c = chip.assign_row(...)?; prev_b = prev_c; prev_c = c
SynthesizeNextRow ==
    /\ circuit = "fibonacci"
    /\ pc = "loop"
    /\ iter < LoopEnd
    /\ LET body == assign_row(prev_b, prev_c)
           e == RegionError(circuit, body)
       IN  /\ AssignRegion("next row", body)
           /\ IF e = "Ok"
              THEN /\ prev_b' = prev_c
                   /\ prev_c' = Handle(body, next_row, 2)
                   /\ iter' = iter + 1
                   /\ UNCHANGED << pc, result >>
              ELSE /\ pc' = "failed"
                   /\ result' = e
                   /\ UNCHANGED << prev_b, prev_c, iter >>
    /\ UNCHANGED << inputs, failures >>

\* the loop is over: Ok(())
SynthesizeReturn ==
    /\ circuit = "fibonacci"
    /\ pc = "loop"
    /\ iter >= LoopEnd
    /\ pc' = "synthesized"
    /\ result' = "Ok"
    /\ UNCHANGED << inputs, advice, selectors, copies, regions, next_row,
                    prev_b, prev_c, iter, failures >>

\* TestCircuit::synthesize: config.assign(..., self.value)?; Ok(())
SynthesizeRangeCheck ==
    /\ circuit = "rangecheck"
    /\ pc = "synthesize"
    /\ LET body == assign(value)
           e == RegionError(circuit, body)
       IN  /\ AssignRegion("Assign value", body)
           /\ pc' = IF e = "Ok" THEN "synthesized" ELSE "failed"
           /\ result' = e
    /\ UNCHANGED << inputs, prev_b, prev_c, iter, failures >>

\* prover.verify() on a prover that MockProver::run returned
Verify ==
    /\ pc = "synthesized"
    /\ failures' = verify(circuit, RANGE, k, advice, selectors, copies, regions)
    /\ pc' = "verified"
    /\ UNCHANGED << inputs, advice, selectors, copies, regions, next_row,
                    prev_b, prev_c, iter, result >>

Next ==
    \/ Verify
    \/ SynthesizeFirstRow
    \/ SynthesizeNextRow
    \/ SynthesizeReturn
    \/ SynthesizeRangeCheck

Spec == Init /\ [][Next]_vars

-----------------------------------------------------------------------------
(* Properties *)

Synthesized == pc \in {"synthesized", "verified"}

\* the violations of one kind in the checker's list
OfKind(kind) == { i \in 1 .. Len(failures) : failures[i].kind = kind }

\* the absolute row a violation is located at
AbsRow(f) == regions[f.location.region.index + 1].start + f.location.offset

\* the gate equation c = a + b at a row
RowAdds(r) ==
    /\ IsSome(advice[0][r]) /\ IsSome(advice[1][r]) /\ IsSome(advice[2][r])
    /\ Unwrap(advice[2][r]) = FAdd(Unwrap(advice[0][r]), Unwrap(advice[1][r]))

SameClass(x, y) == y \in ClassOf({x}, copies)

\* C1: for all known a and b, after synthesize (first row c = a + b as in the
\* code) every enabled row satisfies c = a + b, every copy constraint joins
\* two cells of equal value, and verify returns the empty list.
C1_SynthesizeSatisfies ==
    (circuit = "fibonacci" /\ c_rule = "a + b" /\ pc = "verified") =>
        /\ IsSome(a) /\ IsSome(b)
        /\ \A r \in selectors : RowAdds(r)
        /\ \A p \in copies :
              IsSome(ValueAt(advice, p[1])) /\ ValueAt(advice, p[1]) = ValueAt(advice, p[2])
        /\ failures = << >>

C1_Witness ==
    /\ circuit = "fibonacci" /\ c_rule = "a + b" /\ pc = "verified"
    /\ a = Some(1) /\ b = Some(1) /\ k = TestK
    /\ selectors # {} /\ copies # {}
    /\ failures = << >>

\* C2: with RANGE = 8, verify returns the empty list iff value is one of
\* 0..7; otherwise its list holds a ConstraintNotSatisfied of the constraint
\* "range check", located at the row the value was assigned at, whose
\* recorded cell value is the formatted value.
C2_RangeCheckIff ==
    (circuit = "rangecheck" /\ RANGE = 8 /\ pc = "verified") =>
        /\ (failures = << >>) <=> (value \in 0 .. 7)
        /\ (value \notin 0 .. 7) =>
              \E i \in OfKind("ConstraintNotSatisfied") :
                  /\ failures[i].gate.name = "Range check"
                  /\ failures[i].constraint.name = "range check"
                  /\ AbsRow(failures[i]) = regions[1].start
                  /\ advice[0][AbsRow(failures[i])] = Some(value)
                  /\ \E n \in 1 .. Len(failures[i].cell_values) :
                        failures[i].cell_values[n].value = format_value(value)

C2_Witness ==
    /\ circuit = "rangecheck" /\ RANGE = 8 /\ pc = "verified"
    /\ value = P - 1
    /\ failures # << >>

\* C3: with RANGE = 8 and value = 8, verify returns exactly the one violation
\* the test expects: gate 0 "Range check", constraint 0 "range check",
\* region 0 "Assign value", offset 0, one cell (advice column 0, rotation 0)
\* recorded as 0x8.
C3_ExactlyOneViolation ==
    (circuit = "rangecheck" /\ RANGE = 8 /\ value = 8 /\ pc = "verified") =>
        failures =
            << [kind        |-> "ConstraintNotSatisfied",
                gate        |-> [index |-> 0, name |-> "Range check"],
                constraint  |-> [index |-> 0, name |-> "range check"],
                location    |-> [region |-> [index |-> 0, name |-> "Assign value"],
                                 offset |-> 0],
                cell_values |-> << [column   |-> [type |-> "Advice", index |-> 0],
                                    rotation |-> 0,
                                    value    |-> "0x8"] >>] >>

C3_Witness ==
    /\ circuit = "rangecheck" /\ RANGE = 8 /\ value = 8 /\ pc = "verified"
    /\ Len(failures) = 1

\* the sequence 1,1,2,3,5,8,13,21,34,55
Fibonacci == << 1, 1, 2, 3, 5, 8, 13, 21, 34, 55 >>

FromOnes ==
    circuit = "fibonacci" /\ c_rule = "a + b" /\ a = Some(1) /\ b = Some(1)

\* C4 as stated: from a = b = 1 synthesize commits 10 rows, the c of the last
\* committed row is 55, and verify returns the empty list.
C4_TenRows ==
    (FromOnes /\ pc = "verified") =>
        /\ next_row = 10
        /\ Len(regions) = 10
        /\ advice[2][next_row - 1] = Some(55)
        /\ failures = << >>

\* C4 amended: from a = b = 1 synthesize commits 8 rows (the first row and 7
\* next rows); row r holds terms r, r+1, r+2 of 1,1,2,3,5,8,13,21,34,55, so
\* the ten terms lie on 8 rows and the c of the last committed row is 55;
\* no other row is assigned and verify returns the empty list.
C4_EightRows ==
    (FromOnes /\ pc = "verified") =>
        /\ next_row = 8
        /\ Len(regions) = 8
        /\ \A r \in 0 .. 7 :
              /\ advice[0][r] = Some(Fibonacci[r + 1])
              /\ advice[1][r] = Some(Fibonacci[r + 2])
              /\ advice[2][r] = Some(Fibonacci[r + 3])
        /\ \A r \in 8 .. (Height(k) - 1) : \A col \in 0 .. 2 : advice[col][r] = None
        /\ advice[2][next_row - 1] = Some(55)
        /\ failures = << >>

C4_Witness ==
    /\ FromOnes /\ pc = "verified" /\ k = TestK
    /\ advice[2][7] = Some(55)

C6_CopyChain ==
    (circuit = "fibonacci" /\ Synthesized) =>
        /\ \A i \in 1 .. (Len(regions) - 1) :
              /\ SameClass(Cell(1, regions[i].start), Cell(0, regions[i + 1].start))
              /\ SameClass(Cell(2, regions[i].start), Cell(1, regions[i + 1].start))
        /\ \A cl \in Classes(copies) : ~ClassViolated(advice, cl)
        /\ pc = "verified" =>
              OfKind("Permutation") \cup OfKind("MissingEquality") = {}

C6_Witness ==
    /\ circuit = "fibonacci" /\ pc = "verified"
    /\ Len(regions) = 8
    /\ Cardinality(copies) = 14
    /\ SameClass(Cell(2, 0), Cell(0, 2))

\* C7 as stated: for every RANGE the stored gate is zero at an enabled row
\* iff the value is one of 0..RANGE-1.
C7_GateEnforcesRANGE ==
    (circuit = "rangecheck" /\ Synthesized) =>
        \A r \in selectors :
            (EvalGate(circuit, RANGE, advice, selectors, r) = 0)
                <=> (value \in 0 .. (RANGE - 1))

\* C8: if a or b is None, assign_first_row fails with Error::Synthesis:
\* synthesize returns that error at once, nothing was written to the table
\* (no advice cell, no selector bit, no copy), no region was committed, and
\* the run takes no further step.
C8_MissingWitness ==
    (circuit = "fibonacci" /\ (a = None \/ b = None) /\ pc # "synthesize") =>
        /\ pc = "failed"
        /\ result = "Synthesis"
        /\ \A col \in DOMAIN advice : \A r \in DOMAIN advice[col] : advice[col][r] = None
        /\ selectors = {}
        /\ copies = {}
        /\ regions = << >>
        /\ next_row = 0
        /\ ~ENABLED Next

C8_Witness ==
    /\ circuit = "fibonacci" /\ a = None /\ b = Some(1)
    /\ pc = "failed" /\ result = "Synthesis"

\* the rows a committed region occupies
RowsOf(reg) == reg.start .. (reg.start + reg.rows - 1)

RegionsInOrder ==
    /\ \A i \in 1 .. Len(regions) : RowsOf(regions[i]) = {i - 1}
    /\ \A i, j \in 1 .. Len(regions) :
          i # j => RowsOf(regions[i]) \cap RowsOf(regions[j]) = {}
    /\ circuit = "fibonacci" =>
          \A i \in 1 .. Len(regions) :
              regions[i].name = IF i = 1 THEN "first row" ELSE "next row"
    /\ next_row = Len(regions)
    /\ next_row <= Height(k)
    /\ selectors \subseteq 0 .. (next_row - 1)
    /\ \A col \in DOMAIN advice : \A r \in DOMAIN advice[col] :
          IsSome(advice[col][r]) => r < next_row

\* C9: the i-th region committed occupies exactly absolute row i, regions
\* are pairwise disjoint, every assigned cell and selector bit lies below
\* the next free row, the rows used never exceed the table height 2^k, and
\* the next free row never decreases.
C9_SequentialPlacement ==
    [] RegionsInOrder /\ [][next_row' >= next_row]_vars

C9_Witness ==
    /\ circuit = "fibonacci" /\ k = TestK
    /\ Len(regions) = 8
    /\ next_row = 8
    /\ regions[8].start = 7

\* the polynomial of the specification: the product of (i - v) for i in 0..7
RECURSIVE Reference(_, _)
Reference(i, v) ==
    IF i >= 8 THEN 1 ELSE FMul(FSub(FromU64(i), v), Reference(i + 1, v))

\* C10 as stated: for every selector bit q, the gate built by the fold has
\* the value of q times the product of (i - v) for i in 0..7.
C10_GateIsReference ==
    (circuit = "rangecheck" /\ Synthesized) =>
        \A q \in {0, 1} :
            range_check_gate(RANGE, q, value) = FMul(q, Reference(0, value))

====
